---- MODULE Spec2Model ----
(***************************************************************************)
(* Model of the prompt extraction pipeline of debug_extraction.py:         *)
(* extract_prompts -> find_today_folders -> process_database               *)
(* (load_processed_prompts, record loop, save_processed_prompts) ->        *)
(* save_to_excel, together with the environment the pipeline runs in: the  *)
(* editor that writes the workspace stores, the clock, and the file system *)
(* whose operations may fail.                                              *)
(***************************************************************************)
EXTENDS Integers, Sequences, FiniteSets, TLC

VARIABLES
    clock,      \* wall clock, in ticks; the calendar day is clock \div TicksPerDay
    stores,     \* workspace -> state.vscdb of that workspace
    ledgers,    \* save root -> processed_prompts.json under that root
    backups,    \* names of the .bak.<ts> / .error.<ts> siblings created so far
    xlsx,       \* table key -> the primary tabular file
    csv,        \* table key -> the delimited fallback file
    pc,         \* position of extract_prompts: "idle", "db", "excel"
    saveRoot,   \* save_path argument of the current (or last) invocation
    folders,    \* today_folders of the current invocation
    idx,        \* index in folders of the workspace being processed
    pending,    \* (project_name, data) returned by process_database
    resultFiles,\* result_files of the current invocation
    ret,        \* how the last invocation ended
    loadObs,    \* what the last call of load_processed_prompts did
    saveObs,    \* what the last call of save_processed_prompts did
    tableObs,   \* how the file operations of the last call of save_to_excel went
    limits,     \* what the environment may do in this behaviour (never changes)
    faults,     \* number of I/O failures injected so far
    runs,       \* number of invocations of extract_prompts started so far
    events,     \* number of changes the environment made to the stores so far
    seen,       \* prompt texts whose id was in the ledger when some run started
    durable,    \* prompt texts accepted in this run by calls whose ledger save completed
    idem,       \* bookkeeping for two runs in succession over unchanged stores
    start_btn,  \* CursorLogsGUI.start_btn.isEnabled()
    auto_extract_running,   \* CursorLogsGUI.auto_extract_running
    timerActive,\* CursorLogsGUI.timer.isActive()
    threads,    \* the ExtractionThreads created so far, in order of creation
    handlers,   \* debug_extraction.logger.handlers: the ThreadLogHandlers, by thread
    queue,      \* signals emitted by the threads and not yet delivered to the slots
    probe,      \* the store values a call of extract_project_name finds
    resolved,   \* what that call returned
    race        \* overlapping invocations of extract_prompts, step by step

\* the state of the extraction pipeline and of its environment
core == <<clock, stores, ledgers, backups, xlsx, csv, pc, saveRoot, folders,
          idx, pending, resultFiles, ret, loadObs, saveObs, tableObs, limits, faults,
          runs, events, seen, durable, idem>>

\* the state of the window and of its threads
gui == <<start_btn, auto_extract_running, timerActive, threads, handlers, queue>>

\* a call of extract_project_name on its own
names == <<probe, resolved>>

vars == <<core, gui, names, race>>

----------------------------------------------------------------------------
(* Bounds of the model.                                                    *)

MaxClock == 2
TicksPerDay == 2
MaxPrompts == 2
MaxFaults == 2
MaxEvents == 2
MaxRuns == 2
MaxThreads == 2
MaxLines == 1

----------------------------------------------------------------------------
(* Program constants.                                                      *)

\* the cell length limit of save_to_excel
MaxCellLen == 32700

\* SAVE_PATH, the module-level default save root
SAVE_PATH == "SAVE_PATH"

\* the save roots a caller may pass; SAVE_PATH is the default one
SaveRoots == {SAVE_PATH, "other"}

\* the workspace directories under the workspace root, in listing order
Workspaces == {1, 2}

\* the name extract_project_name resolves for a readable store
ProjectOf(w) == IF w = 1 THEN "projA" ELSE "projB"

Projects == {ProjectOf(w) : w \in Workspaces}

\* os.path.basename(folder_path), the fallback of extract_project_name
FolderName(w) == IF w = 1 THEN "ws1" ELSE "ws2"

----------------------------------------------------------------------------
(* Dates.  strftime is modelled by the characters it produces, so that the *)
(* two date formats of the program ('%Y-%m-%d' and '%Y%m%d') differ.       *)

Days == 0..(MaxClock \div TicksPerDay)

DayOf(t) == t \div TicksPerDay

DayOfMonth(d) == IF d = 0 THEN "01" ELSE IF d = 1 THEN "02" ELSE IF d = 2 THEN "03" ELSE "04"

\* datetime.strftime('%Y-%m-%d')
DateDashed(d) == <<"2024", "-", "01", "-", DayOfMonth(d)>>

\* datetime.strftime('%Y%m%d')
DateCompact(d) == <<"2024", "01", DayOfMonth(d)>>

\* str.replace('-', '')
StripDashes(s) == SelectSeq(s, LAMBDA c : c # "-")

\* the time-of-day part, '%H:%M:%S', of a timestamp
TimeOf(t) == t % TicksPerDay

----------------------------------------------------------------------------
(* Prompt records of the store's aiService.prompts collection.             *)

\* prompt texts, as sequences of characters; {"text": ""} is a record too
Texts == {<<"a">>, <<>>}

TextRec(t) == [kind |-> "text", text |-> t]

\* {"text": 5}: a text field that is no string
NonStrRec == [kind |-> "nonstr", text |-> <<>>]

Records == {TextRec(t) : t \in Texts} \cup {NonStrRec}

\* an element of the collection that is no mapping, e.g. a bare string
NotDictRec == [kind |-> "notdict", text |-> <<>>]

\* a mapping without a text field
NoTextRec == [kind |-> "notext", text |-> <<>>]

\* hashlib.md5(prompt_text.encode()).hexdigest(): a function of the text
\* alone, taken to be free of collisions
PromptId(text) == <<"md5", text>>

----------------------------------------------------------------------------
(* Files.                                                                  *)

EmptyMap == [x \in {} |-> <<>>]

\* processed_prompts.json: absent, a complete JSON mapping, or a truncated
\* (unparsable) text
AbsentFile == [kind |-> "absent", map |-> EmptyMap]

PartialFile == [kind |-> "partial", map |-> EmptyMap]

OkFile(m) == [kind |-> "ok", map |-> m]

\* the tabular files are kept as a mapping from the path (save root,
\* project, date) of each file that exists to its rows
NoFiles == [k \in {} |-> <<>>]

TableKeys == SaveRoots \X Projects \X {DateCompact(d) : d \in Days}

\* the ids a ledger file holds under its normal name
LedgerIds(f) == IF f.kind = "ok" THEN DOMAIN f.map ELSE {}

----------------------------------------------------------------------------
(* extract_timestamp_from_data                                             *)

\* the modification time 0.0 (1970-01-01), which Python takes for false; it
\* lies before every tick of the clock
EpochZero == -1

ExtractTimestamp(dbModTime, now) ==
    IF dbModTime # EpochZero THEN dbModTime ELSE now

----------------------------------------------------------------------------
(* load_processed_prompts                                                  *)

\* a load that returns an empty mapping whatever the file holds
LoadProcessedPromptsEmpty(file, renameOk) ==
    [raised |-> FALSE, map |-> [x \in {} |-> <<>>], file |-> file, bak |-> FALSE]

\* renameOk: whether os.rename of the damaged file succeeds
LoadProcessedPrompts(file, renameOk) ==
    IF file.kind = "absent"
    THEN [raised |-> FALSE, map |-> EmptyMap, file |-> file, bak |-> FALSE]
    ELSE IF file.kind = "ok"
    THEN [raised |-> FALSE, map |-> file.map, file |-> file, bak |-> FALSE]
    ELSE IF renameOk
    THEN [raised |-> FALSE, map |-> EmptyMap, file |-> AbsentFile, bak |-> TRUE]
    ELSE [raised |-> TRUE, map |-> EmptyMap, file |-> file, bak |-> FALSE]

----------------------------------------------------------------------------
(* save_processed_prompts                                                  *)

\* how a call can go: "ok"; "mkdir": os.makedirs raises (outside the try);
\* "open": open(..., 'w') raises before the file is truncated; "dump": the
\* file is truncated and json.dump raises part way; "crash": the process is
\* killed during json.dump
SaveOutcomes == {"ok", "mkdir", "open", "dump", "crash"}

\* a save whose handler leaves the file where it is
SaveProcessedPromptsInPlace(map, file, outcome, renameOk) ==
    [raised |-> FALSE, crashed |-> outcome = "crash",
     file |-> IF outcome = "ok" THEN OkFile(map) ELSE file, err |-> FALSE]

SaveProcessedPrompts(map, file, outcome, renameOk) ==
    CASE outcome = "ok" ->
            [raised |-> FALSE, crashed |-> FALSE, file |-> OkFile(map), err |-> FALSE]
      [] outcome = "mkdir" ->
            [raised |-> TRUE, crashed |-> FALSE, file |-> file, err |-> FALSE]
      [] outcome = "open" ->
            IF file.kind # "absent" /\ renameOk
            THEN [raised |-> FALSE, crashed |-> FALSE, file |-> AbsentFile, err |-> TRUE]
            ELSE [raised |-> FALSE, crashed |-> FALSE, file |-> file, err |-> FALSE]
      [] outcome = "dump" ->
            IF renameOk
            THEN [raised |-> FALSE, crashed |-> FALSE, file |-> AbsentFile, err |-> TRUE]
            ELSE [raised |-> FALSE, crashed |-> FALSE, file |-> PartialFile, err |-> FALSE]
      [] OTHER ->
            [raised |-> FALSE, crashed |-> TRUE, file |-> PartialFile, err |-> FALSE]

\* whether the call reaches os.rename of the handler
SaveAsked(file, outcome) ==
    IF outcome = "dump" \/ (outcome = "open" /\ file.kind # "absent")
    THEN {"saveRename"} ELSE {}

----------------------------------------------------------------------------
(* extract_project_name.  A string is a sequence of tokens: words, and     *)
(* the characters and prefixes the function looks at ("/", ".", "%20",     *)
(* "file:///", ...).                                                       *)

StartsWith(p, pre) == Len(p) >= Len(pre) /\ SubSeq(p, 1, Len(pre)) = pre

EndsWith(p, suf) == Len(p) >= Len(suf) /\ SubSeq(p, Len(p) - Len(suf) + 1, Len(p)) = suf

\* urllib.parse.unquote
Unquote(p) == [i \in 1..Len(p) |-> IF p[i] = "%20" THEN " " ELSE p[i]]

\* str.replace(pat, "")
RECURSIVE RemoveAll(_, _)
RemoveAll(p, pat) ==
    IF Len(p) < Len(pat) THEN p
    ELSE IF StartsWith(p, pat) THEN RemoveAll(SubSeq(p, Len(pat) + 1, Len(p)), pat)
    ELSE <<p[1]>> \o RemoveAll(Tail(p), pat)

\* os.path.basename: what follows the last "/"
Basename(p) ==
    LET slashes == {i \in 1..Len(p) : p[i] = "/"}
        last == IF slashes = {} THEN 0 ELSE CHOOSE i \in slashes : \A j \in slashes : j <= i
    IN  SubSeq(p, last + 1, Len(p))

\* str.split('/')
RECURSIVE Split(_)
Split(p) ==
    LET slashes == {i \in 1..Len(p) : p[i] = "/"}
    IN  IF slashes = {} THEN <<p>>
        ELSE LET first == CHOOSE i \in slashes : \A j \in slashes : i <= j
             IN  <<SubSeq(p, 1, first - 1)>> \o Split(SubSeq(p, first + 1, Len(p)))

LaunchJson == <<"launch", ".", "json">>

SettingsJson == <<"settings", ".", "json">>

\* the tokens that are no word, digit, Hangul, whitespace, "_" or "-"
OtherTokens == {".", "!", "%20", ":", "file:///"}

\* re.sub(r'[^\w\d가-힣\s_-]', '_', project_name)
SanitizeName(n) == [i \in 1..Len(n) |-> IF n[i] \in OtherTokens THEN "_" ELSE n[i]]

\* the loop over the resource paths of memento/editorpart, from match i on:
\* the first path with more than one part gives parts[1]
RECURSIVE ScanEditor(_, _, _)
ScanEditor(matches, i, project_name) ==
    IF i > Len(matches) THEN project_name
    ELSE LET parts == Split(matches[i])
         IN  IF Len(parts) > 1 THEN parts[2]
             ELSE ScanEditor(matches, i + 1, project_name)

\* a value of the ItemTable: no row, a NULL value, or a text
NoRow == [kind |-> "absent", text |-> <<>>, matches |-> <<>>]

NullValue == [kind |-> "null", text |-> <<>>, matches |-> <<>>]

\* in.connectOk: sqlite3.connect and the queries succeed; in.root: the value
\* of debug.selectedroot; in.editor: the value of memento/editorpart, with
\* the resource paths the regular expression finds in it
ExtractProjectName(folder_name, in) ==
    IF ~in.connectOk THEN folder_name
    ELSE IF in.root.kind = "absent" THEN folder_name
    ELSE IF in.root.kind = "null"
    THEN \* os.path.basename(None) raises; the handler falls through
         folder_name
    ELSE LET unquoted == Unquote(in.root.text)
             stripped == IF StartsWith(unquoted, <<"file:///">>) THEN Tail(unquoted)
                         ELSE unquoted
             project_path ==
                 IF EndsWith(stripped, <<".", "vscode", "/">> \o LaunchJson)
                 THEN RemoveAll(stripped, <<"/", ".", "vscode", "/">> \o LaunchJson)
                 ELSE stripped
             based == Basename(project_path)
         IN  IF based \in {<<>>, LaunchJson, SettingsJson} /\ in.editor.kind = "null"
             THEN \* re.finditer(..., None) raises; the handler falls through
                  folder_name
             ELSE LET project_name ==
                          IF based \in {<<>>, LaunchJson, SettingsJson}
                             /\ in.editor.kind = "text"
                          THEN ScanEditor(in.editor.matches, 1, based)
                          ELSE based
                  IN  IF project_name # <<>> THEN SanitizeName(project_name)
                      ELSE folder_name

NoProbe == [connectOk |-> TRUE, root |-> NoRow, editor |-> NoRow]

NoName == [returned |-> FALSE, name |-> <<>>]

----------------------------------------------------------------------------
(* process_database                                                        *)

\* json.loads of the aiService.prompts value: a JSONDecodeError is caught
\* and leaves prompts_data empty
ParseBlob(prompts) ==
    IF \E i \in 1..Len(prompts) : prompts[i].kind = "garbage" THEN <<>> ELSE prompts

MapPut(m, k, v) == [x \in (DOMAIN m) \cup {k} |-> IF x = k THEN v ELSE m[x]]

\* the record loop, from record i on; raised: an exception left the loop
RECURSIVE RecordLoop(_, _, _, _, _, _)
RecordLoop(prompts, i, results, processed, dbModTime, now) ==
    IF i > Len(prompts)
    THEN [raised |-> FALSE, results |-> results, processed |-> processed]
    ELSE LET prompt == prompts[i]
             today == DateCompact(DayOf(now))
             next(r, m) == RecordLoop(prompts, i + 1, r, m, dbModTime, now)
         IN  CASE prompt.kind = "notdict" -> next(results, processed)
               [] prompt.kind = "notext" -> next(results, processed)
               [] prompt.kind = "nonstr" ->
                    \* prompt_text.encode() raises AttributeError
                    [raised |-> TRUE, results |-> results, processed |-> processed]
               [] OTHER ->
                    LET prompt_id == PromptId(prompt.text)
                        ts == ExtractTimestamp(dbModTime, now)
                        date_str == DateDashed(DayOf(ts))
                        time_str == TimeOf(ts)
                        db_date == StripDashes(date_str)
                    IN  IF prompt_id \in DOMAIN processed
                        THEN next(results, processed)
                        ELSE IF db_date # today
                        THEN next(results, processed)
                        ELSE next(Append(results, [date |-> date_str,
                                                   time |-> time_str,
                                                   prompt |-> prompt.text]),
                                  MapPut(processed, prompt_id, today))

\* what a call of load_processed_prompts did: the kind of file it found, and
\* whether it raised, renamed the file, returned an empty mapping
NoLoad == [called |-> FALSE, found |-> "absent", raised |-> FALSE,
           renamed |-> FALSE, empty |-> FALSE]

\* The whole call for workspace w.  in: the outcomes of the file system
\* operations of this call.  unbound: the final return raises
\* UnboundLocalError because project_name was never assigned.
ProcessDatabase(w, store, file, now, in) ==
    LET base == [unbound |-> FALSE, crashed |-> FALSE, project |-> FolderName(w),
                 results |-> <<>>, file |-> file, bak |-> FALSE, err |-> FALSE,
                 load |-> NoLoad, save |-> "none", asked |-> {}]
    IN  IF ~store.present
        THEN \* os.path.getmtime raises before project_name is assigned
             [base EXCEPT !.unbound = TRUE]
        ELSE IF ~in.dbOk
        THEN \* extract_project_name falls back to the folder name; the
             \* queries of process_database raise and are caught
             [base EXCEPT !.asked = {"db"}]
        ELSE LET prompts_data == ParseBlob(store.prompts)
                 named == [base EXCEPT !.project = ProjectOf(w), !.asked = {"db"}]
             IN  IF prompts_data = <<>>
                 THEN named
                 ELSE LET ld == LoadProcessedPrompts(file, in.loadRenameOk)
                          obs == [called |-> TRUE, found |-> file.kind,
                                  raised |-> ld.raised, renamed |-> ld.bak,
                                  empty |-> ld.map = EmptyMap]
                          loaded == [named EXCEPT !.file = ld.file, !.bak = ld.bak,
                                                  !.load = obs,
                                                  !.asked = IF file.kind = "partial"
                                                            THEN {"db", "loadRename"}
                                                            ELSE {"db"}]
                      IN  IF ld.raised
                          THEN loaded
                          ELSE LET lp == RecordLoop(prompts_data, 1, <<>>, ld.map,
                                                    store.mtime, now)
                               IN  IF lp.raised
                                   THEN [loaded EXCEPT !.results = lp.results]
                                   ELSE LET sv == SaveProcessedPrompts(lp.processed, ld.file,
                                                      in.saveOutcome, in.saveRenameOk)
                                        IN  [loaded EXCEPT !.results = lp.results,
                                                           !.file = sv.file,
                                                           !.err = sv.err,
                                                           !.crashed = sv.crashed,
                                                           !.save = in.saveOutcome,
                                                           !.asked = @ \cup {"save"} \cup
                                                               SaveAsked(ld.file, in.saveOutcome)]

----------------------------------------------------------------------------
(* save_to_excel                                                           *)

\* the names of the characters \x00 .. \x1F, in the order of their codes
C0Names == <<"NUL", "SOH", "STX", "ETX", "EOT", "ENQ", "ACK", "BEL", "BS", "TAB", "LF",
             "VT", "FF", "CR", "SO", "SI", "DLE", "DC1", "DC2", "DC3", "DC4", "NAK", "SYN",
             "ETB", "CAN", "EM", "SUB", "ESC", "FS", "GS", "RS", "US">>

\* ord(c); every other character of the model is a letter
CharCode(c) ==
    IF c = "DEL" THEN 127
    ELSE IF \E i \in 1..Len(C0Names) : C0Names[i] = c
    THEN (CHOOSE i \in 1..Len(C0Names) : C0Names[i] = c) - 1
    ELSE 97

\* the characters of the class [\x00-\x08\x0B\x0C\x0E-\x1F\x7F]
StrippedChars ==
    {c \in {C0Names[i] : i \in 1..Len(C0Names)} \cup {"DEL"} :
        \/ CharCode(c) \in 0..8
        \/ CharCode(c) \in {11, 12}
        \/ CharCode(c) \in 14..31
        \/ CharCode(c) = 127}

\* a variant that cuts at the cell length limit before it removes the
\* control characters
SanitizeCutFirst(s) ==
    LET cut == IF Len(s) > MaxCellLen THEN SubSeq(s, 1, MaxCellLen) ELSE s
    IN  SelectSeq(cut, LAMBDA c : c \notin StrippedChars)

\* re.sub of the control characters, then the cut at the cell length limit
Sanitize(s) ==
    LET kept == SelectSeq(s, LAMBDA c : c \notin StrippedChars)
    IN  IF Len(kept) > MaxCellLen THEN SubSeq(kept, 1, MaxCellLen) ELSE kept

\* the in-place rewrite of every string field of every item of data; the
\* time field holds digits and colons only
SanitizeRow(r) == [date |-> Sanitize(r.date), time |-> r.time, prompt |-> Sanitize(r.prompt)]

SanitizeData(data) == [i \in 1..Len(data) |-> SanitizeRow(data[i])]

\* DataFrame.drop_duplicates(subset=['date', 'time', 'prompt']): the first
\* of equal rows is kept
DropDuplicates(rows) ==
    SelectSeq([i \in 1..Len(rows) |-> [row |-> rows[i], first |-> \A j \in 1..(i - 1) : rows[j] # rows[i]]],
              LAMBDA e : e.first)

RowsOf(tagged) == [i \in 1..Len(tagged) |-> tagged[i].row]

\* the order of the strings '%Y-%m-%d' is the order of the days
DateOrd(date_str) == IF \E d \in Days : DateDashed(d) = date_str
                     THEN CHOOSE d \in Days : DateDashed(d) = date_str
                     ELSE 0

RowLess(a, b) ==
    \/ DateOrd(a.date) < DateOrd(b.date)
    \/ DateOrd(a.date) = DateOrd(b.date) /\ a.time < b.time

RECURSIVE InsertSorted(_, _)
InsertSorted(sorted, r) ==
    IF sorted = <<>> THEN <<r>>
    ELSE IF RowLess(r, sorted[Len(sorted)])
    THEN Append(InsertSorted(SubSeq(sorted, 1, Len(sorted) - 1), r), sorted[Len(sorted)])
    ELSE Append(sorted, r)

\* DataFrame.sort_values(by=['date', 'time']), a stable sort
RECURSIVE SortValues(_)
SortValues(rows) ==
    IF rows = <<>> THEN <<>>
    ELSE InsertSorted(SortValues(SubSeq(rows, 1, Len(rows) - 1)), rows[Len(rows)])

\* float('nan'), the value pandas gives an empty cell; it is no string and
\* differs from every string, the empty one included
NaN == <<"nan">>

\* pd.read_excel of a table the program wrote, with the columns date, time,
\* prompt: the date and time cells are never empty, an empty prompt cell is
\* read as NaN
ReadExcel(rows) ==
    [i \in 1..Len(rows) |-> IF rows[i].prompt = <<>> THEN [rows[i] EXCEPT !.prompt = NaN]
                                                      ELSE rows[i]]

\* the cells DataFrame.to_excel and DataFrame.to_csv write: NaN and the empty
\* string both give an empty cell
WriteCells(rows) ==
    [i \in 1..Len(rows) |-> IF rows[i].prompt = NaN THEN [rows[i] EXCEPT !.prompt = <<>>]
                                                    ELSE rows[i]]

\* pd.concat([existing_df, new_df]).drop_duplicates(...).sort_values(...)
MergeRows(existing, new) == SortValues(RowsOf(DropDuplicates(existing \o new)))

NoPath == [ok |-> FALSE, key |-> <<>>, ext |-> "none"]

Path(key, ext) == [ok |-> TRUE, key |-> key, ext |-> ext]

\* file_path, the path of the primary table
FilePath(key) == Path(key, "xlsx")

\* a variant that reports file_path where csv_path is meant
CsvPathPrimary(key) == Path(key, "xlsx")

\* csv_path = file_path.replace('.xlsx', '.csv')
CsvPath(key) == Path(key, "csv")

\* how the file operations of a call can go: "ok"; "mkdir": os.makedirs of
\* the project folder raises; "read": pd.read_excel of the existing file
\* raises; "xlsx": to_excel raises; "both": to_excel and to_csv raise
TableOutcomes == {"ok", "mkdir", "read", "xlsx", "both"}

\* The whole call; x and c are the primary and the fallback files.
SaveToExcel(project_name, data, save_path, x, c, outcome) ==
    LET none == [path |-> NoPath, x |-> x, c |-> c]
    IN  IF data = <<>> THEN none
        ELSE IF outcome = "mkdir" THEN none
        ELSE
        LET key == <<save_path, project_name, StripDashes(data[1].date)>>
            clean == SanitizeData(data)
            exists == key \in DOMAIN x
            rows == IF exists THEN MergeRows(ReadExcel(x[key]), clean) ELSE clean
        IN  IF exists /\ outcome = "read" THEN none
            ELSE IF outcome = "both" THEN none
            ELSE IF outcome = "xlsx"
            THEN [path |-> CsvPath(key), x |-> x, c |-> MapPut(c, key, WriteCells(rows))]
            ELSE [path |-> FilePath(key), x |-> MapPut(x, key, WriteCells(rows)), c |-> c]

----------------------------------------------------------------------------
(* The state machine.                                                      *)

\* an invocation of extract_prompts that runs beside another one: where it
\* stands, the ledger ids it loaded, its in-memory processed_prompts and
\* results, and the table rows it is about to write
NoInv == [pc |-> "idle", folders |-> <<>>, idx |-> 1, loaded |-> {},
          processed |-> [x \in {} |-> <<>>], results |-> <<>>, key |-> <<>>, rows |-> <<>>]

\* lostIds, lostRows: ids and rows a write removed from the ledger or from a
\* table; emitted: the texts handed to save_to_excel so far; reemitted: the
\* texts accepted again after their id was removed; overlapped: whether an
\* invocation was started while another one was in flight
NoRace == [inv |-> <<NoInv, NoInv>>, lostIds |-> {}, lostRows |-> {}, emitted |-> {},
           reemitted |-> {}, overlapped |-> FALSE]

\* the ledger file the program reads and writes: process_database calls
\* load_processed_prompts() and save_processed_prompts(processed_prompts)
\* without a save path, so both use the default, SAVE_PATH
LedgerRoot == SAVE_PATH

NoPending == [project |-> "", data |-> <<>>]

NoRet == [kind |-> "none", files |-> <<>>]

\* roots: the save roots the caller passes; maxFaults: how many file system
\* operations may fail; maxRuns: how many invocations are started; maxEvents:
\* how many times the stores are changed
NoPosition == [pc |-> "idle", folders |-> <<>>, pending |-> NoPending, prompts |-> <<>>]

\* position: where extract_prompts stands, and the records the first
\* workspace's store holds; tables: the primary tables present
InitRest(roots, maxFaults, maxRuns, maxEvents, position, tables) ==
    /\ limits = [roots |-> roots, maxFaults |-> maxFaults, maxRuns |-> maxRuns,
                 maxEvents |-> maxEvents]
    /\ clock = 0
    /\ stores = [w \in Workspaces |->
                     [present |-> TRUE, mtime |-> 0,
                      prompts |-> IF w = 1 THEN position.prompts ELSE <<>>]]
    /\ ledgers = [r \in SaveRoots |-> AbsentFile]
    /\ backups = {}
    /\ xlsx = tables
    /\ csv = NoFiles
    /\ pc = position.pc
    /\ saveRoot = SAVE_PATH
    /\ folders = position.folders
    /\ idx = 1
    /\ pending = position.pending
    /\ resultFiles = <<>>
    /\ ret = NoRet
    /\ loadObs = NoLoad
    /\ saveObs = "none"
    /\ tableObs = "none"
    /\ faults = 0
    /\ runs = 0
    /\ events = 0
    /\ seen = {}
    /\ durable = {}
    /\ idem = [armed |-> FALSE, stable |-> FALSE, size |-> 0]
    /\ start_btn = TRUE
    /\ auto_extract_running = FALSE
    /\ timerActive = FALSE
    /\ threads = <<>>
    /\ handlers = <<>>
    /\ queue = <<>>

InitFrom(roots, maxFaults, maxRuns, maxEvents, position, tables) ==
    /\ InitRest(roots, maxFaults, maxRuns, maxEvents, position, tables)
    /\ probe = NoProbe
    /\ resolved = NoName
    /\ race = NoRace

\* the state after construction: nothing has run, no output exists
InitWith(roots, maxFaults, maxRuns, maxEvents) ==
    InitFrom(roots, maxFaults, maxRuns, maxEvents, NoPosition, NoFiles)

\* the caller keeps the default save root; file system operations may fail
Init == InitWith({SAVE_PATH}, MaxFaults, MaxRuns, MaxEvents)

\* the caller passes any save root; no file system operation fails
InitRoots == InitWith(SaveRoots, 0, MaxRuns, MaxEvents)

\* the caller keeps the default save root; no file system operation fails
InitQuiet == InitWith({SAVE_PATH}, 0, MaxRuns, MaxEvents)

\* the texts whose content id the ledger file holds
LedgerTexts == {t \in Texts : PromptId(t) \in LedgerIds(ledgers[LedgerRoot])}

\* loadObs and saveObs describe the call of process_database that has just
\* returned, tableObs the call of save_to_excel that has just returned; any
\* later step forgets them
Forget == loadObs' = NoLoad /\ saveObs' = "none" /\ tableObs' = "none"

\* os.listdir order of the workspace directories that hold a store file
RECURSIVE ListFolders(_)
ListFolders(ws) ==
    IF ws = {} THEN <<>>
    ELSE LET w == CHOOSE x \in ws : \A y \in ws : x <= y
         IN  (IF stores[w].present THEN <<w>> ELSE <<>>) \o ListFolders(ws \ {w})

\* a scan that keeps only the stores modified today
FindTodayFoldersByDate(listOk) ==
    IF listOk
    THEN SelectSeq(ListFolders(Workspaces), LAMBDA w : DayOf(stores[w].mtime) = DayOf(clock))
    ELSE <<>>

\* find_today_folders; listOk: whether os.listdir succeeds
FindTodayFolders(listOk) == IF listOk THEN ListFolders(Workspaces) ELSE <<>>

Bump(n) == /\ faults + n <= limits.maxFaults
           /\ faults' = faults + n

\* extract_prompts, up to the loop over the folders.  mkOk: whether
\* os.makedirs(save_path) succeeds.
Start(root, mkOk, listOk) ==
    /\ pc = "idle"
    /\ root \in limits.roots
    /\ runs < limits.maxRuns
    /\ runs' = runs + 1
    /\ Bump((IF mkOk THEN 0 ELSE 1) + (IF listOk THEN 0 ELSE 1))
    /\ mkOk \/ listOk
    /\ saveRoot' = root
    /\ seen' = seen \cup LedgerTexts
    /\ durable' = {}
    /\ LET again == ret.kind = "list" /\ idem.stable /\ root = saveRoot
       IN  idem' = [armed |-> again,
                    stable |-> TRUE,
                    size |-> IF again THEN Cardinality(LedgerIds(ledgers[LedgerRoot])) ELSE 0]
    /\ resultFiles' = <<>>
    /\ idx' = 1
    /\ pending' = NoPending
    /\ IF ~mkOk
       THEN /\ folders' = <<>>
            /\ ret' = [kind |-> "raised", files |-> <<>>]
            /\ pc' = "idle"
       ELSE /\ folders' = FindTodayFolders(listOk)
            /\ IF folders' = <<>>
               THEN ret' = [kind |-> "list", files |-> <<>>] /\ pc' = "idle"
               ELSE ret' = NoRet /\ pc' = "db"
    /\ Forget
    /\ UNCHANGED <<clock, stores, ledgers, backups, xlsx, csv, limits, events>>
    /\ UNCHANGED <<gui, names, race>>

\* the end of one pass of the loop over today_folders, and the return
NextFolder(files) ==
    /\ idx' = idx + 1
    /\ resultFiles' = files
    /\ pending' = NoPending
    /\ IF idx + 1 > Len(folders)
       THEN pc' = "idle" /\ ret' = [kind |-> "list", files |-> files]
       ELSE pc' = "db" /\ ret' = ret

AllOk == [dbOk |-> TRUE, loadRenameOk |-> TRUE, saveOutcome |-> "ok", saveRenameOk |-> TRUE]

DbInputs == [dbOk : BOOLEAN, loadRenameOk : BOOLEAN, saveOutcome : SaveOutcomes,
             saveRenameOk : BOOLEAN]

FaultCount(in) == (IF in.dbOk THEN 0 ELSE 1) + (IF in.loadRenameOk THEN 0 ELSE 1)
                  + (IF in.saveOutcome = "ok" THEN 0 ELSE 1)
                  + (IF in.saveRenameOk THEN 0 ELSE 1)

\* an operation that the call does not reach cannot fail
Consulted(in, asked) ==
    /\ "db" \in asked \/ in.dbOk
    /\ "loadRename" \in asked \/ in.loadRenameOk
    /\ "save" \in asked \/ in.saveOutcome = "ok"
    /\ "saveRename" \in asked \/ in.saveRenameOk

\* process_database(folder_path) for the current folder
DoProcessDatabase(in) ==
    /\ pc = "db"
    /\ LET w == folders[idx]
           out == ProcessDatabase(w, stores[w], ledgers[LedgerRoot], clock, in)
       IN  /\ Consulted(in, out.asked)
           /\ Bump(FaultCount(in))
           /\ ledgers' = [ledgers EXCEPT ![LedgerRoot] = out.file]
           /\ backups' = backups \cup (IF out.bak THEN {<<"bak", clock>>} ELSE {})
                                 \cup (IF out.err THEN {<<"error", clock>>} ELSE {})
           /\ loadObs' = out.load
           /\ saveObs' = out.save
           /\ tableObs' = "none"
           /\ durable' = IF out.save = "ok"
                         THEN durable \cup {out.results[i].prompt : i \in 1..Len(out.results)}
                         ELSE durable
           /\ IF out.unbound \/ out.crashed
              THEN /\ pc' = "idle"
                   /\ ret' = [kind |-> IF out.unbound THEN "raised" ELSE "crashed",
                              files |-> <<>>]
                   /\ UNCHANGED <<idx, resultFiles, pending>>
              ELSE IF out.results # <<>>
              THEN /\ pc' = "excel"
                   /\ pending' = [project |-> out.project, data |-> out.results]
                   /\ UNCHANGED <<idx, resultFiles, ret>>
              ELSE NextFolder(resultFiles)
    /\ UNCHANGED <<clock, stores, xlsx, csv, saveRoot, folders, limits, runs, events, seen,
                   idem>>
    /\ UNCHANGED <<gui, names, race>>

\* save_to_excel(project_name, data, save_path) and the bookkeeping after it
DoSaveToExcel(outcome) ==
    /\ pc = "excel"
    /\ LET out == SaveToExcel(pending.project, pending.data, saveRoot, xlsx, csv, outcome)
           plain == SaveToExcel(pending.project, pending.data, saveRoot, xlsx, csv, "ok")
       IN  /\ outcome = "ok" \/ out # plain
           /\ Bump(IF outcome = "ok" THEN 0 ELSE IF outcome = "both" THEN 2 ELSE 1)
           /\ xlsx' = out.x
           /\ csv' = out.c
           /\ NextFolder(IF out.path.ok THEN Append(resultFiles, out.path) ELSE resultFiles)
    /\ loadObs' = NoLoad
    /\ saveObs' = "none"
    /\ tableObs' = outcome
    /\ UNCHANGED <<clock, stores, ledgers, backups, saveRoot, folders, limits, runs, events,
                   seen, durable, idem>>
    /\ UNCHANGED <<gui, names, race>>

\* the environment: time passes
Tick ==
    /\ clock < MaxClock
    /\ clock' = clock + 1
    /\ Forget
    /\ UNCHANGED <<stores, ledgers, backups, xlsx, csv, pc, saveRoot, folders, idx, pending,
                   resultFiles, ret, limits, faults, runs, events, seen, durable, idem>>
    /\ UNCHANGED <<gui, names, race>>

StoreChanged ==
    /\ events < limits.maxEvents
    /\ events' = events + 1
    /\ idem' = [idem EXCEPT !.armed = FALSE, !.stable = FALSE]

\* the environment: the editor records a prompt in a workspace's store
AppendPrompt(w, r) ==
    /\ stores[w].present
    /\ Len(stores[w].prompts) < MaxPrompts
    /\ stores' = [stores EXCEPT ![w].prompts = Append(@, r), ![w].mtime = clock]
    /\ StoreChanged
    /\ Forget
    /\ UNCHANGED <<clock, ledgers, backups, xlsx, csv, pc, saveRoot, folders, idx, pending,
                   resultFiles, ret, limits, faults, runs, seen, durable>>
    /\ UNCHANGED <<gui, names, race>>

\* the environment: the editor writes other keys of a workspace's store
\* (the modification time becomes now), or the store file is put back with
\* its modification time set to the epoch
Touch(w, epoch) ==
    /\ stores[w].present
    /\ stores[w].mtime # (IF epoch THEN EpochZero ELSE clock)
    /\ stores' = [stores EXCEPT ![w].mtime = IF epoch THEN EpochZero ELSE clock]
    /\ StoreChanged
    /\ Forget
    /\ UNCHANGED <<clock, ledgers, backups, xlsx, csv, pc, saveRoot, folders, idx, pending,
                   resultFiles, ret, limits, faults, runs, seen, durable>>
    /\ UNCHANGED <<gui, names, race>>

\* the environment: a workspace's store file is removed
RemoveStore(w) ==
    /\ stores[w].present
    /\ stores' = [stores EXCEPT ![w].present = FALSE]
    /\ StoreChanged
    /\ Forget
    /\ UNCHANGED <<clock, ledgers, backups, xlsx, csv, pc, saveRoot, folders, idx, pending,
                   resultFiles, ret, limits, faults, runs, seen, durable>>
    /\ UNCHANGED <<gui, names, race>>

Next ==
    \/ \E root \in SaveRoots, mkOk \in BOOLEAN, listOk \in BOOLEAN : Start(root, mkOk, listOk)
    \/ \E in \in DbInputs : DoProcessDatabase(in)
    \/ \E outcome \in TableOutcomes : DoSaveToExcel(outcome)
    \/ Tick
    \/ \E w \in Workspaces, r \in Records : AppendPrompt(w, r)
    \/ \E w \in Workspaces, epoch \in BOOLEAN : Touch(w, epoch)
    \/ \E w \in Workspaces : RemoveStore(w)

Spec == Init /\ [][Next]_vars

SpecRoots == InitRoots /\ [][Next]_vars

SpecQuiet == InitQuiet /\ [][Next]_vars

----------------------------------------------------------------------------
(* save_to_excel on its own: the call is made with rows and tables drawn   *)
(* from the sets below.                                                    *)

\* the prompt of the example: a control character and a tab
CtlText == <<"a", "SOH", "TAB", "b">>

\* one control character and more letters than a cell may hold
LongText == [i \in 1..(MaxCellLen + 2) |-> IF i = 1 THEN "BS" ELSE "x"]

\* one control character and as many letters as a cell may hold
EdgeText == [i \in 1..(MaxCellLen + 1) |-> IF i = 1 THEN "VT" ELSE "x"]

\* a text that differs from "a" by a control character only
TwinText == <<"a", "SOH">>

SampleTexts == {<<"a">>, <<"LF", "DEL", "CR">>, CtlText, LongText, EdgeText}

\* a row as process_database returns it; the rows of one call share the
\* date and the time, those of the store's modification time
SampleRow(time, text) == [date |-> DateDashed(0), time |-> time, prompt |-> text]

WriterInputs ==
    {<<SampleRow(t, x)>> : t \in 0..(TicksPerDay - 1), x \in SampleTexts}
        \cup {<<SampleRow(t, xy[1]), SampleRow(t, xy[2])>> :
                  t \in 0..(TicksPerDay - 1),
                  xy \in {p \in SampleTexts \X SampleTexts : p[1] # p[2]}}
        \cup {<<SampleRow(t, <<"a">>), SampleRow(t, TwinText)>> : t \in 0..(TicksPerDay - 1)}

SampleKey == <<SAVE_PATH, ProjectOf(1), DateCompact(0)>>

\* no table yet, or a table earlier calls have written
WriterTables ==
    {NoFiles,
     [k \in {SampleKey} |-> <<SampleRow(0, <<"a">>)>>],
     [k \in {SampleKey} |-> <<SampleRow(0, <<"a">>), SampleRow(1, Sanitize(CtlText))>>]}

InitWriter ==
    \E d \in WriterInputs, x \in WriterTables :
        InitFrom({SAVE_PATH}, MaxFaults, 0, 0,
                 [pc |-> "excel", folders |-> <<1>>,
                  pending |-> [project |-> ProjectOf(1), data |-> d], prompts |-> <<>>],
                 x)

NextWriter == \E outcome \in TableOutcomes : DoSaveToExcel(outcome)

SpecWriter == InitWriter /\ [][NextWriter]_vars

----------------------------------------------------------------------------
(* process_database on its own: the call is made for a store whose         *)
(* collection is drawn from the records below, malformed ones included.    *)

MaxRecords == 3

AllRecords == Records \cup {NotDictRec, NoTextRec}

SampleCollections == UNION {[1..n -> AllRecords] : n \in 0..MaxRecords}

InitLoop ==
    \E c \in SampleCollections :
        InitFrom({SAVE_PATH}, 0, 0, 0,
                 [pc |-> "db", folders |-> <<1>>, pending |-> NoPending, prompts |-> c],
                 NoFiles)

NextLoop ==
    \/ \E in \in DbInputs : DoProcessDatabase(in)
    \/ \E outcome \in TableOutcomes : DoSaveToExcel(outcome)

SpecLoop == InitLoop /\ [][NextLoop]_vars

----------------------------------------------------------------------------
(* Overlapping invocations of extract_prompts on the default save root,    *)
(* as two ExtractionThreads make them.  Between the file operations of one *)
(* invocation the other one may run: process_database is split at its      *)
(* ledger load and its ledger save, save_to_excel at its read of the       *)
(* existing table and its write.  No file system operation fails.          *)

Invocations == {1, 2}

RaceRuns == 3

InFlightRace(i) == race.inv[i].pc \notin {"idle", "done"}

\* the steps of an invocation leave these alone
raceFrame == <<clock, stores, csv, pc, saveRoot, folders, idx, pending, resultFiles, ret,
               loadObs, saveObs, tableObs, limits, faults, events, seen, durable, idem>>

\* the end of one pass of the loop over today_folders
RaceNextFolder(v) ==
    [v EXCEPT !.idx = @ + 1, !.results = <<>>,
              !.pc = IF v.idx + 1 > Len(v.folders) THEN "done" ELSE "load"]

\* process_database has returned: rows go to save_to_excel, no rows end
\* the pass
RaceReturned(v) == IF v.results # <<>> THEN [v EXCEPT !.pc = "read"] ELSE RaceNextFolder(v)

TextsOf(rows) == {rows[k].prompt : k \in 1..Len(rows)}

\* extract_prompts, up to the loop over the folders
RaceStart(i) ==
    /\ ~InFlightRace(i)
    /\ runs < limits.maxRuns
    /\ runs' = runs + 1
    /\ LET found == FindTodayFolders(TRUE)
       IN  race' = [race EXCEPT
                       !.inv[i] = [NoInv EXCEPT !.folders = found,
                                                !.pc = IF found = <<>> THEN "done" ELSE "load"],
                       !.overlapped = @ \/ \E j \in Invocations \ {i} : InFlightRace(j)]
    /\ UNCHANGED <<ledgers, backups, xlsx, raceFrame, gui, names>>

\* process_database, up to the end of the record loop: the store is read,
\* the ledger is loaded and the records are gone through in memory
RaceLoad(i) ==
    /\ race.inv[i].pc = "load"
    /\ LET v == race.inv[i]
           store == stores[v.folders[v.idx]]
           prompts_data == ParseBlob(store.prompts)
           ld == LoadProcessedPrompts(ledgers[LedgerRoot], TRUE)
           lp == RecordLoop(prompts_data, 1, <<>>, ld.map, store.mtime, clock)
           after == [v EXCEPT !.loaded = DOMAIN ld.map, !.processed = lp.processed,
                              !.results = lp.results]
       IN  IF ~store.present
           THEN \* the UnboundLocalError ends the invocation
                /\ race' = [race EXCEPT !.inv[i].pc = "done"]
                /\ UNCHANGED <<ledgers, backups>>
           ELSE IF prompts_data = <<>>
           THEN /\ race' = [race EXCEPT !.inv[i] = RaceNextFolder(v)]
                /\ UNCHANGED <<ledgers, backups>>
           ELSE /\ ledgers' = [ledgers EXCEPT ![LedgerRoot] = ld.file]
                /\ backups' = backups \cup (IF ld.bak THEN {<<"bak", clock>>} ELSE {})
                /\ race' = [race EXCEPT
                                !.inv[i] = IF lp.raised THEN RaceReturned(after)
                                           ELSE [after EXCEPT !.pc = "save"],
                                !.reemitted = @ \cup {t \in TextsOf(lp.results) :
                                                         /\ t \in race.emitted
                                                         /\ PromptId(t) \in race.lostIds},
                                !.emitted = @ \cup TextsOf(lp.results)]
    /\ UNCHANGED <<runs, xlsx, raceFrame, gui, names>>

\* process_database, from save_processed_prompts to its return
RaceSave(i) ==
    /\ race.inv[i].pc = "save"
    /\ LET v == race.inv[i]
           sv == SaveProcessedPrompts(v.processed, ledgers[LedgerRoot], "ok", TRUE)
       IN  /\ ledgers' = [ledgers EXCEPT ![LedgerRoot] = sv.file]
           /\ race' = [race EXCEPT
                           !.inv[i] = RaceReturned(v),
                           !.lostIds = @ \cup (LedgerIds(ledgers[LedgerRoot]) \ LedgerIds(sv.file))]
    /\ UNCHANGED <<runs, backups, xlsx, raceFrame, gui, names>>

\* save_to_excel, up to the merged data frame: the rows are sanitized and
\* the existing table, if any, is read and merged
RaceRead(i) ==
    /\ race.inv[i].pc = "read"
    /\ LET v == race.inv[i]
           key == <<saveRoot, ProjectOf(v.folders[v.idx]), StripDashes(v.results[1].date)>>
           clean == SanitizeData(v.results)
       IN  race' = [race EXCEPT
                       !.inv[i].key = key,
                       !.inv[i].rows = IF key \in DOMAIN xlsx
                                       THEN MergeRows(ReadExcel(xlsx[key]), clean)
                                       ELSE clean,
                       !.inv[i].pc = "write"]
    /\ UNCHANGED <<runs, ledgers, backups, xlsx, raceFrame, gui, names>>

\* save_to_excel, to_excel and the return, and the end of the pass
RaceWrite(i) ==
    /\ race.inv[i].pc = "write"
    /\ LET v == race.inv[i]
           written == WriteCells(v.rows)
       IN  /\ xlsx' = MapPut(xlsx, v.key, written)
           /\ race' = [race EXCEPT
                           !.inv[i] = RaceNextFolder(v),
                           !.lostRows = @ \cup
                               ((IF v.key \in DOMAIN xlsx
                                 THEN {xlsx[v.key][k] : k \in 1..Len(xlsx[v.key])} ELSE {})
                                \ {written[k] : k \in 1..Len(written)})]
    /\ UNCHANGED <<runs, ledgers, backups, raceFrame, gui, names>>

InitRace == InitFrom({SAVE_PATH}, 0, RaceRuns, MaxEvents, NoPosition, NoFiles)

NextRace ==
    \/ \E i \in Invocations : RaceStart(i)
    \/ \E i \in Invocations : RaceLoad(i)
    \/ \E i \in Invocations : RaceSave(i)
    \/ \E i \in Invocations : RaceRead(i)
    \/ \E i \in Invocations : RaceWrite(i)
    \/ Tick
    \/ \E w \in Workspaces, r \in Records : AppendPrompt(w, r)

SpecRace == InitRace /\ [][NextRace]_vars

----------------------------------------------------------------------------
(* extract_project_name on its own: the call is made for a store whose     *)
(* values are drawn from the sets below.                                   *)

TextValue(text) == [kind |-> "text", text |-> text, matches |-> <<>>]

EditorValue(matches) == [kind |-> "text", text |-> <<>>, matches |-> matches]

SampleRoots ==
    {NoRow, NullValue,
     TextValue(<<"file:///", "Users", "/", "me", "/", "proj", "/", ".", "vscode", "/">>
               \o LaunchJson),
     TextValue(<<"file:///", "Users", "/", "me", "/", "proj", "/", ".", "vscode", "/">>
               \o SettingsJson),
     TextValue(<<"file:///", "Users", "/", "me", "/", "my", "%20", "proj">>),
     TextValue(<<"file:///", "Users", "/", "me", "/", "proj", "/">>),
     TextValue(<<"/", "Users", "/", "me", "/", "proj", "!">>),
     TextValue(<<".", "vscode", "/">> \o LaunchJson),
     TextValue(LaunchJson)}

SampleEditors ==
    {NoRow, NullValue,
     EditorValue(<<>>),
     EditorValue(<< <<"/", "Users", "/", "me", "/", "f", ".", "py">> >>),
     EditorValue(<< <<"f", ".", "py">> >>),
     EditorValue(<< <<"f", ".", "py">>, <<"src", "/", "f", ".", "py">> >>),
     EditorValue(<< <<"/", "/", "f">> >>)}

Probes == [connectOk : BOOLEAN, root : SampleRoots, editor : SampleEditors]

\* os.path.basename(folder_path)
ProbeFolder == <<"ws1">>

InitName ==
    /\ InitRest({SAVE_PATH}, 0, 0, 0, NoPosition, NoFiles)
    /\ probe \in Probes
    /\ resolved = NoName
    /\ race = NoRace

\* the call extract_project_name(folder_path, db_path)
Resolve ==
    /\ ~resolved.returned
    /\ resolved' = [returned |-> TRUE, name |-> ExtractProjectName(ProbeFolder, probe)]
    /\ UNCHANGED <<probe, core, gui, race>>

NextName == Resolve

SpecName == InitName /\ [][NextName]_vars

----------------------------------------------------------------------------
(* The window of cursor_logs_gui.py: CursorLogsGUI and its                 *)
(* ExtractionThreads.  The slots run on the one thread of the event loop,  *)
(* in the order in which the signals were emitted; run() of every          *)
(* ExtractionThread runs on a thread of its own.  The signals progress and *)
(* status only set the progress bar and the status bar and are left out.   *)

ThreadIds == 1..MaxThreads

\* how the call of extract_prompts in run() ends: a list of files, an empty
\* list, or an exception
ExtractOutcomes == {"files", "empty", "raised"}

\* a signal of the WorkerSignals of thread `of`; run: the thread whose
\* extraction logged the line
LogSignal(of, run) == [sig |-> "log", of |-> of, run |-> run, success |-> FALSE]

FinishedSignal(of, success) == [sig |-> "finished", of |-> of, run |-> of, success |-> success]

\* ExtractionThread.__init__
NewThread == [st |-> "started", outcome |-> "none", logged |-> 0, finished |-> 0]

\* a variant of run() whose except branch emits no finished signal
RunResultSilentRaise(t, outcome) ==
    CASE outcome = "files" -> <<FinishedSignal(t, TRUE)>>
      [] outcome = "empty" -> <<FinishedSignal(t, FALSE)>>
      [] OTHER -> <<LogSignal(t, t)>>

\* the signals run() emits once extract_prompts has returned or raised
RunResult(t, outcome) ==
    CASE outcome = "files" -> <<FinishedSignal(t, TRUE)>>
      [] outcome = "empty" -> <<FinishedSignal(t, FALSE)>>
      [] OTHER -> <<LogSignal(t, t), FinishedSignal(t, FALSE)>>

\* CursorLogsGUI.start_extraction
StartExtraction ==
    /\ Len(threads) < MaxThreads
    /\ start_btn' = FALSE
    /\ threads' = Append(threads, NewThread)

\* start_btn.clicked; a disabled button gives no click
ClickStart ==
    /\ start_btn
    /\ StartExtraction
    /\ UNCHANGED <<auto_extract_running, timerActive, handlers, queue>>
    /\ UNCHANGED <<core, names, race>>

\* CursorLogsGUI.toggle_auto_extract; the button is never disabled
ToggleAutoExtract ==
    /\ IF auto_extract_running
       THEN /\ timerActive' = FALSE
            /\ auto_extract_running' = FALSE
            /\ UNCHANGED <<start_btn, threads>>
       ELSE /\ timerActive' = TRUE
            /\ auto_extract_running' = TRUE
            /\ StartExtraction
    /\ UNCHANGED <<handlers, queue>>
    /\ UNCHANGED <<core, names, race>>

\* timer.timeout, connected to start_extraction
TimerTimeout ==
    /\ timerActive
    /\ StartExtraction
    /\ UNCHANGED <<auto_extract_running, timerActive, handlers, queue>>
    /\ UNCHANGED <<core, names, race>>

\* run(), up to the call of extract_prompts: the thread adds its
\* ThreadLogHandler to the logger of debug_extraction
RunBegin(t) ==
    /\ t <= Len(threads)
    /\ threads[t].st = "started"
    /\ threads' = [threads EXCEPT ![t].st = "extracting"]
    /\ handlers' = Append(handlers, t)
    /\ UNCHANGED <<start_btn, auto_extract_running, timerActive, queue>>
    /\ UNCHANGED <<core, names, race>>

\* extract_prompts of thread t logs a line: every handler of the logger
\* emits it through the log signal of the thread that added the handler
RunLog(t) ==
    /\ t <= Len(threads)
    /\ threads[t].st = "extracting"
    /\ threads[t].logged < MaxLines
    /\ threads' = [threads EXCEPT ![t].logged = @ + 1]
    /\ queue' = queue \o [i \in 1..Len(handlers) |-> LogSignal(handlers[i], t)]
    /\ UNCHANGED <<start_btn, auto_extract_running, timerActive, handlers>>
    /\ UNCHANGED <<core, names, race>>

\* run(), from the return of extract_prompts to the end of the try statement
RunEnd(t, outcome) ==
    /\ t <= Len(threads)
    /\ threads[t].st = "extracting"
    /\ LET emitted == RunResult(t, outcome)
       IN  /\ queue' = queue \o emitted
           /\ threads' = [threads EXCEPT
                             ![t].st = "emitted",
                             ![t].outcome = outcome,
                             ![t].finished = @ + Len(SelectSeq(emitted,
                                                     LAMBDA e : e.sig = "finished"))]
    /\ UNCHANGED <<start_btn, auto_extract_running, timerActive, handlers>>
    /\ UNCHANGED <<core, names, race>>

\* run(), the finally clause: every ThreadLogHandler is removed from the
\* logger, whichever thread added it
RunFinally(t) ==
    /\ t <= Len(threads)
    /\ threads[t].st = "emitted"
    /\ threads' = [threads EXCEPT ![t].st = "done"]
    /\ handlers' = <<>>
    /\ UNCHANGED <<start_btn, auto_extract_running, timerActive, queue>>
    /\ UNCHANGED <<core, names, race>>

\* the event loop delivers the oldest signal to its slot: update_log, or
\* on_extraction_finished, which enables the start button
Deliver ==
    /\ queue # <<>>
    /\ queue' = Tail(queue)
    /\ start_btn' = IF Head(queue).sig = "finished" THEN TRUE ELSE start_btn
    /\ UNCHANGED <<auto_extract_running, timerActive, threads, handlers>>
    /\ UNCHANGED <<core, names, race>>

NextGui ==
    \/ ClickStart
    \/ ToggleAutoExtract
    \/ TimerTimeout
    \/ \E t \in ThreadIds : RunBegin(t)
    \/ \E t \in ThreadIds : RunLog(t)
    \/ \E t \in ThreadIds, outcome \in ExtractOutcomes : RunEnd(t, outcome)
    \/ \E t \in ThreadIds : RunFinally(t)
    \/ Deliver

SpecGui == Init /\ [][NextGui]_vars

----------------------------------------------------------------------------
(* Properties.                                                             *)

Ledger == ledgers[LedgerRoot]

\* the rows of a project's output for one day: the primary table and its
\* delimited fallback
RowSet(files, k) == IF k \in DOMAIN files THEN {files[k][i] : i \in 1..Len(files[k])} ELSE {}

OutputRows(k) == RowSet(xlsx, k) \cup RowSet(csv, k)

OutputRowsNext(k) == RowSet(xlsx', k) \cup RowSet(csv', k)

\* the rows for prompt text t in all project outputs
RowsFor(t) == {kr \in {<<k, r>> : k \in TableKeys, r \in UNION {OutputRows(j) : j \in TableKeys}} :
                  /\ kr[2] \in OutputRows(kr[1])
                  /\ kr[2].prompt = Sanitize(t)}

\* C1: when extract has been run twice in succession with the same save
\* root, no store changed since the first run started and no file system
\* operation failed, the second run returns an empty list and the ledger
\* holds as many entries as after the first run.
C1_Idempotence ==
    (pc = "idle" /\ ret.kind = "list" /\ idem.armed /\ faults = 0)
        => (ret.files = <<>> /\ Cardinality(LedgerIds(Ledger)) = idem.size)

\* C2: a step never adds, to any project output, a row for a prompt text
\* whose content id was in the ledger when an earlier or the current run
\* started.
C2_NoDuplicateEmission ==
    [][\A k \in TableKeys : \A t \in seen :
          \A r \in OutputRowsNext(k) \ OutputRows(k) :
              r.prompt # Sanitize(t)]_vars

\* C3: between runs, every content id of the persisted ledger has exactly
\* one row for its prompt text in the project outputs.
C3_ExactlyOnce ==
    pc = "idle" => \A t \in LedgerTexts : Cardinality(RowsFor(t)) = 1

\* C4: a row that is in a project's output stays in that project's output.
C4_NoRowLoss ==
    [][\A k \in TableKeys : OutputRows(k) \subseteq OutputRowsNext(k)]_vars

\* C5: a step of an invocation changes no ledger file other than the one
\* under the save root of that invocation.
C5_LedgerUnderSaveRoot ==
    [][\A r \in SaveRoots : ledgers'[r] # ledgers[r] => r = saveRoot]_vars

\* C6: when an invocation has ended, by returning or by raising, every
\* workspace of the scanned list has been processed.
C6_WorkspaceIsolation ==
    (pc = "idle" /\ ret.kind \in {"list", "raised"} /\ folders # <<>>)
        => idx = Len(folders) + 1

\* C7: an invocation never ends by raising an exception.
C7_ExtractNeverRaises == ret.kind # "raised"

\* C8: a call of load_processed_prompts that finds an unparsable file does
\* not raise, renames the file to a .bak.<timestamp> sibling and returns an
\* empty mapping; a call that finds no file returns an empty mapping.
C8_CorruptLedgerRecovery ==
    /\ (loadObs.called /\ loadObs.found = "partial")
           => (~loadObs.raised /\ loadObs.renamed /\ loadObs.empty
               /\ <<"bak", clock>> \in backups)
    /\ (loadObs.called /\ loadObs.found = "absent")
           => (~loadObs.raised /\ loadObs.empty)

\* the ledger file as save_processed_prompts finds it: load_processed_prompts
\* has renamed an unparsable file away
PreSave(f) == IF f.kind = "partial" THEN AbsentFile ELSE f

\* C9: a call of save_processed_prompts that does not complete leaves,
\* under the normal name, the complete previous file or a complete mapping.
C9_AtomicLedgerSave ==
    [][saveObs' \notin {"none", "ok"}
          => (ledgers'[LedgerRoot] = PreSave(Ledger) \/ ledgers'[LedgerRoot].kind = "ok")]_vars

\* C10: the set of content ids in the persisted ledger only grows.
C10_MonotonicLedger ==
    [][LedgerIds(Ledger) \subseteq LedgerIds(ledgers'[LedgerRoot])]_vars

\* C11: every content id accepted in the current run by a call of
\* process_database that completed its ledger save is in the persisted
\* ledger, whatever happens while the later workspaces are processed.
C11_LedgerDurability ==
    \A t \in durable : PromptId(t) \in LedgerIds(Ledger)

\* the rows DoSaveToExcel is about to hand to save_to_excel, sanitized
NewRows == {SanitizeRow(pending.data[i]) : i \in 1..Len(pending.data)}

\* the table file save_to_excel is about to address
TargetKey == <<saveRoot, pending.project, StripDashes(pending.data[1].date)>>

NoTwoEqual(rows) == \A i, j \in 1..Len(rows) : rows[i] = rows[j] => i = j

Ascending(rows) == \A i, j \in 1..Len(rows) : i < j => ~RowLess(rows[j], rows[i])

\* C12: when the target table exists and save_to_excel rewrites it, the rows
\* written are exactly the existing rows and the sanitized new rows, no two
\* of them are equal on (date, time, prompt), and they ascend by (date, time).
C12_MergeCorrectness ==
    [][(pc = "excel" /\ TargetKey \in DOMAIN xlsx /\ xlsx' # xlsx)
          => /\ RowSet(xlsx', TargetKey) = RowSet(xlsx, TargetKey) \cup NewRows
             /\ NoTwoEqual(xlsx'[TargetKey])
             /\ Ascending(xlsx'[TargetKey])]_vars

\* C13: a call of process_database on a store whose modification time is
\* not of today's date produces no row.
C13_DateWindow ==
    [][(pc = "db" /\ DayOf(stores[folders[idx]].mtime) # DayOf(clock)) => pc' # "excel"]_vars

\* the table the primary write of the call at hand contains when it succeeds
PrimaryWrite ==
    SaveToExcel(pending.project, pending.data, saveRoot, xlsx, csv, "ok").x[TargetKey]

\* C14: when the primary write of a call of save_to_excel raises and the
\* delimited write does not, the delimited file of the same base path holds
\* the rows the primary write would have contained, the primary table is left
\* as it was, and the path added to the result list is the fallback path.
C14_FallbackOnWriteFailure ==
    [][tableObs' = "xlsx"
          => /\ TargetKey \in DOMAIN csv'
             /\ csv'[TargetKey] = PrimaryWrite
             /\ xlsx' = xlsx
             /\ resultFiles' = Append(resultFiles, [ok |-> TRUE, key |-> TargetKey, ext |-> "csv"])]_vars

\* a fallback file written in the existing-file branch, holding merged rows
C14_Witness ==
    /\ tableObs = "xlsx"
    /\ \E k \in DOMAIN xlsx \cap DOMAIN csv : Len(csv[k]) > Len(xlsx[k])

\* C15: when pd.read_excel of the existing target table raises, the call of
\* save_to_excel keeps the unreadable file under a backup name and the new
\* rows are in the project's output afterwards.
C15_UnparsableTableRecovery ==
    [][tableObs' = "read"
          => /\ NewRows \subseteq OutputRowsNext(TargetKey)
             /\ backups' # backups]_vars

\* the threads that have been started and whose run() has not returned
InFlight == {t \in DOMAIN threads : threads[t].st # "done"}

\* C16: at no time are two ExtractionThreads in flight.
C16_SingleInvocation == Cardinality(InFlight) <= 1

\* the signals a step emits
Emitted == IF Len(queue') >= Len(queue)
           THEN SubSeq(queue', Len(queue) + 1, Len(queue'))
           ELSE <<>>

\* C17: a thread whose run() has passed the try statement has emitted
\* exactly one finished signal and a thread that has not has emitted none;
\* no log line of a run is emitted once the finished signal of that run has
\* been emitted; the delivery of a finished signal leaves the start button
\* enabled.
C17_OneTerminalResult ==
    /\ [](\A t \in DOMAIN threads :
             threads[t].finished = (IF threads[t].st \in {"emitted", "done"} THEN 1 ELSE 0))
    /\ [][/\ \A t \in DOMAIN threads : \A i \in DOMAIN Emitted :
                 (threads[t].finished > 0 /\ Emitted[i].sig = "log") => Emitted[i].run # t
          /\ (queue # <<>> /\ Head(queue).sig = "finished" /\ queue' = Tail(queue))
                 => start_btn']_vars

\* a thread whose extract_prompts raised has returned, its signals have
\* been delivered and the start button is enabled
C17_Witness ==
    /\ queue = <<>>
    /\ start_btn
    /\ \E t \in DOMAIN threads :
          /\ threads[t].st = "done"
          /\ threads[t].outcome = "raised"
          /\ threads[t].logged = MaxLines
          /\ threads[t].finished = 1

\* the control characters: \x00 .. \x1F and \x7F
ControlChars == {C0Names[i] : i \in 1..Len(C0Names)} \cup {"DEL"}

\* tab, newline and carriage return
KeptControls == {"TAB", "LF", "CR"}

\* what the sanitization is to give for the string s
Cleaned(s) ==
    LET kept == SelectSeq(s, LAMBDA c : c \notin (ControlChars \ KeptControls))
    IN  SubSeq(kept, 1, IF Len(kept) < MaxCellLen THEN Len(kept) ELSE MaxCellLen)

CleanedRows == {[date |-> Cleaned(pending.data[i].date),
                 time |-> pending.data[i].time,
                 prompt |-> Cleaned(pending.data[i].prompt)] : i \in 1..Len(pending.data)}

\* the rows of the file a call that ended with tableObs' has written
WrittenRows == IF tableObs' = "xlsx" THEN RowSet(csv', TargetKey) ELSE RowSet(xlsx', TargetKey)

\* C18: the new rows a call of save_to_excel writes, to the table or to its
\* fallback, are the rows it was given with every control character other
\* than tab, newline and carriage return removed from the date and the
\* prompt, the other characters kept in order, and the result cut to at most
\* MaxCellLen characters; sanitizing a string twice gives what sanitizing
\* it once gives.
C18_Sanitization ==
    [][tableObs' \in {"ok", "xlsx"}
          => /\ CleanedRows \subseteq WrittenRows
             /\ WrittenRows \ RowSet(xlsx, TargetKey) \subseteq CleanedRows
             /\ \A r \in WrittenRows : /\ Len(r.prompt) <= MaxCellLen
                                        /\ \A i \in 1..Len(r.prompt) :
                                              r.prompt[i] \notin ControlChars \ KeptControls
             /\ \A i \in 1..Len(pending.data) :
                   Sanitize(Sanitize(pending.data[i].prompt)) = Sanitize(pending.data[i].prompt)]_vars

\* a table that holds the prompt of the example without its control
\* character and with its tab, and a prompt cut at the cell length limit
C18_Witness ==
    /\ tableObs = "ok"
    /\ \E k \in DOMAIN xlsx : \E i, j \in 1..Len(xlsx[k]) :
          /\ xlsx[k][i].prompt = <<"a", "TAB", "b">>
          /\ Len(xlsx[k][j].prompt) = MaxCellLen

\* what the selected root yields: the name before the editor layout is
\* looked at
RootName(in) ==
    LET unquoted == Unquote(in.root.text)
        stripped == IF StartsWith(unquoted, <<"file:///">>) THEN Tail(unquoted) ELSE unquoted
    IN  Basename(IF EndsWith(stripped, <<".", "vscode", "/">> \o LaunchJson)
                 THEN RemoveAll(stripped, <<"/", ".", "vscode", "/">> \o LaunchJson)
                 ELSE stripped)

\* the editor-layout scan finds no path
NoPathFound(in) == in.editor.kind # "text" \/ in.editor.matches = <<>>

\* C19: a call of extract_project_name returns the workspace directory's
\* name whenever the selected root is absent, or yields an empty name or
\* launch.json or settings.json while the editor layout gives no path; and
\* it never returns a name made from launch.json or settings.json.
C19_ProjectNameFallback ==
    resolved.returned
        => /\ (probe.root.kind # "text"
                \/ (RootName(probe) \in {<<>>, LaunchJson, SettingsJson} /\ NoPathFound(probe)))
               => resolved.name = ProbeFolder
           /\ resolved.name \notin {LaunchJson, SettingsJson,
                                     SanitizeName(LaunchJson), SanitizeName(SettingsJson)}

\* the value the ledger file holds for the content id of a text
LedgerValue(file, text) == file.map[PromptId(text)]

\* C20: when process_database emits rows and its ledger save completes,
\* the ledger then holds, for the content id of every emitted row, the
\* first-seen date in the form YYYY-MM-DD, equal to the row's date field.
C20_LedgerValueFormat ==
    [][(pc = "db" /\ pc' = "excel" /\ saveObs' = "ok")
          => \A i \in 1..Len(pending'.data) :
                 LET row == pending'.data[i]
                     file == ledgers'[LedgerRoot]
                 IN  /\ PromptId(row.prompt) \in LedgerIds(file)
                     /\ LedgerValue(file, row.prompt) \in {DateDashed(d) : d \in Days}
                     /\ LedgerValue(file, row.prompt) = row.date]_vars

\* the collection without its malformed records
WellFormed(prompts) == SelectSeq(prompts, LAMBDA r : r.kind = "text")

\* what process_database does for the current folder when no file system
\* operation fails and the store holds the given collection
Processed(prompts) ==
    ProcessDatabase(folders[idx], [stores[folders[idx]] EXCEPT !.prompts = prompts],
                    Ledger, clock, AllOk)

\* C21: a call of process_database on a store with malformed records (no
\* mapping, no text field, a text that is no string) hands over the rows
\* and leaves the ledger ids it would for the same store without them.
C21_MalformedSkipped ==
    [][pc = "db"
          => LET clean == Processed(WellFormed(stores[folders[idx]].prompts))
             IN  /\ pending'.data = clean.results
                 /\ LedgerIds(ledgers'[LedgerRoot]) = LedgerIds(clean.file)]_vars

\* the failures of save_processed_prompts inside its try block
WriteFailures == {"open", "dump"}

WithStore == {w \in Workspaces : stores[w].present}

C24_NoDuplicateKeys ==
    tableObs \in {"ok", "xlsx"}
        => /\ \A k \in DOMAIN xlsx : NoTwoEqual(xlsx[k])
           /\ \A k \in DOMAIN csv : NoTwoEqual(csv[k])

\* C25: an id or a row is removed from the ledger or from a table only in
\* behaviours in which an invocation was started while another one was in
\* flight (the witness shows that overlapping invocations do lose an id
\* and emit its text a second time).
C25_LostUpdateNeedsOverlap ==
    (race.lostIds # {} \/ race.lostRows # {}) => race.overlapped

\* C25 witness: the save of one invocation has removed an id the other
\* invocation had recorded, and the text of that id has been accepted and
\* handed to save_to_excel a second time.
C25_Witness ==
    /\ race.overlapped
    /\ race.reemitted # {}
    /\ \E t \in race.reemitted : PromptId(t) \in race.lostIds

\* C26: while rows returned by process_database wait for save_to_excel,
\* the content id of every one of them is in the persisted ledger.
C26_LedgeredBeforeEmitted ==
    pc = "excel"
        => \A i \in 1..Len(pending.data) : PromptId(pending.data[i].prompt) \in LedgerIds(Ledger)

\* the store process_database is about to read
CurrentStore == stores[folders[idx]]

\* the texts of the store's records, when every record is well formed
StoreTexts == {CurrentStore.prompts[i].text : i \in 1..Len(CurrentStore.prompts)}

\* C27: a call of process_database on a store whose modification date is
\* not today leaves the ledger ids as they were; a call on a store of
\* well-formed records whose modification date is today hands over a row
\* for every text of the store whose id the ledger does not hold.
C27_DateRejectedNotLedgered ==
    [][(pc = "db" /\ (pc' # "db" \/ idx' # idx) /\ CurrentStore.present)
          => /\ DayOf(CurrentStore.mtime) # DayOf(clock)
                    => LedgerIds(ledgers'[LedgerRoot]) = LedgerIds(Ledger)
             /\ (/\ DayOf(CurrentStore.mtime) = DayOf(clock)
                 /\ WellFormed(CurrentStore.prompts) = CurrentStore.prompts)
                    => \A t \in StoreTexts :
                           PromptId(t) \notin LedgerIds(Ledger)
                               => t \in {pending'.data[i].prompt : i \in 1..Len(pending'.data)}]_vars

\* whether the store of workspace w holds a record with the text t
Holds(w, t) == \E i \in 1..Len(stores[w].prompts) : stores[w].prompts[i] = TextRec(t)

\* the positions in the scanned list of the workspaces that hold t in a
\* store of modification day d
HoldersOn(t, d) ==
    {i \in 1..Len(folders) : Holds(folders[i], t) /\ DayOf(stores[folders[i]].mtime) = d}

\* the project outputs with a row for the text t, with the day of the row
RowsOfText(t) ==
    {<<k, d>> \in TableKeys \X Days :
        [date |-> DateDashed(d), prompt |-> Sanitize(t)]
            \in {[date |-> r.date, prompt |-> r.prompt] : r \in OutputRows(k)}}

C29_LogHandlerIsolation ==
    [][\A t \in DOMAIN threads :
          /\ (threads[t].st = "emitted" /\ threads'[t].st = "done")
                 => handlers' = SelectSeq(handlers, LAMBDA h : h # t)
          /\ threads'[t].logged = threads[t].logged + 1
                 => Len(SelectSeq(Emitted, LAMBDA e : e.sig = "log" /\ e.run = t)) = 1]_vars

====
